---- MODULE Spec2Model ----
(***************************************************************************)
(* telegram-wolt-bot: the monitoring engine of WoltBot (bot.py).           *)
(*                                                                         *)
(* Two threads share the registry self._monitored_restaurants:             *)
(*   - the dispatcher thread, which runs the command handlers and so       *)
(*     WoltBot.monitor_restaurant, one command at a time;                  *)
(*   - the job queue thread, which runs _monitor_restaurants_job.          *)
(* Neither takes a lock.  Every access to the registry is one step of the  *)
(* model; network calls (status check, send_message, statistics) are the   *)
(* points where their outcome is chosen by the environment.                *)
(*                                                                         *)
(* Time is counted in hours: the timeout of _did_restaurant_timeout is 2.  *)
(***************************************************************************)
EXTENDS Integers, Sequences, FiniteSets, TLC

\* ---------------------------------------------------------------- bounds
NumRestaurants == 2
NumChats == 2
MaxTime == 3
MaxCommands == 2

\* timeout=datetime.timedelta(hours=2), bot.py:107
TIMEOUT_HOURS == 2

Restaurants == 1..NumRestaurants
Chats == 1..NumChats

VARIABLES
    started,                \* WoltBot.start has run
    alive,                  \* the process has not called os._exit
    stats,                  \* self._stats is not None
    now,                    \* datetime.datetime.now(), in hours
    monitored_restaurants,  \* self._monitored_restaurants, in insertion order
    pending,                \* jobs waiting in the job queue (run_once)
    \* job queue thread: _monitor_restaurants_job
    jobpc,                  \* idle | scan | check | notify | stop | returned |
                            \* raised | exited
    di_pos,                 \* dict iterator of line 114: next entry
    di_used,                \* dict iterator of line 114: size when created
    done,                   \* the list done of _monitor_restaurants
    cur,                    \* restaurant whose chats are being notified
    si_used,                \* set iterator of the notify loop: size when created
    visited,                \* chats the notify loop's iterator has yielded
    raised,                 \* the exception that left _monitor_restaurants
    result,                 \* is_restaurant_online: the status response received
                            \* last, until the tick goes on to something else
    \* dispatcher thread: monitor_restaurant
    cmdpc,                  \* idle | add_chat | reply | send
    cmd,                    \* the running handler's locals: see NoCommand
    chat_contexts,          \* self._chat_contexts: per chat, the search results
                            \* it is to pick from (<<>>: no entry)
    ncommands,              \* commands handled so far (bounded)
    named,                  \* how many restaurants and chats commands have named
    \* what the current tick has done (reset when a tick starts)
    outcome,                \* per restaurant: none | offline | online | error | timeout
    subscribers,            \* per restaurant: chats subscribed when it was evaluated
    age,                    \* per restaurant found offline: now - earliest start_time
                            \* when it was evaluated (-1: not evaluated so)
    attempts,               \* per restaurant, chat: send_message calls of the tick
    removed,                \* restaurants popped from the registry by the tick
    events                  \* MonitorEvents handed to report_monitor_events and stored

vars == <<started, alive, stats, now, monitored_restaurants, pending,
          jobpc, di_pos, di_used, done, cur, si_used, visited, raised,
          result, cmdpc, cmd, chat_contexts, ncommands, named,
          outcome, subscribers, age, attempts, removed, events>>

jobvars == <<jobpc, di_pos, di_used, done, cur, si_used, visited, raised,
             result>>
tickvars == <<outcome, subscribers, age, attempts, removed, events>>
cmdvars == <<cmdpc, cmd, chat_contexts, ncommands, named>>

\* ------------------------------------------------------------- registry

\* MonitorRequest(chat_id, start_time), bot.py:27-30
MonitorRequest(c, t) == [chat_id |-> c, start_time |-> t]

\* dict keys, in no order
Keys(m) == {m[i].restaurant : i \in DOMAIN m}

IndexOf(m, r) == CHOOSE i \in DOMAIN m : m[i].restaurant = r

\* self._monitored_restaurants[r].monitor_requests
Requests(m, r) == m[IndexOf(m, r)].monitor_requests

ChatsOf(S) == {q.chat_id : q \in S}

\* dict.setdefault(restaurant, RestaurantContext()), bot.py:79
setdefault(m, r) ==
    IF r \in Keys(m) THEN m
    ELSE Append(m, [restaurant |-> r, monitor_requests |-> {}])

\* The mutant of add_chat: a resubscribe restarts the wait clock.
add_chat_restart(S, c, t) ==
    {q \in S : q.chat_id # c} \cup {MonitorRequest(c, t)}

\* RestaurantContext.add_chat: set.add of a MonitorRequest whose equality and
\* hash are on chat_id alone (start_time has compare=False), so an equal
\* element already in the set is kept.  bot.py:37-38
add_chat(S, c, t) ==
    IF \E q \in S : q.chat_id = c THEN S ELSE S \cup {MonitorRequest(c, t)}

\* dict.pop(restaurant), bot.py:92
pop(m, r) == SelectSeq(m, LAMBDA e : e.restaurant # r)

Max(a, b) == IF a >= b THEN a ELSE b

SetMin(S) == CHOOSE x \in S : \A y \in S : x <= y

\* datetime.datetime.now() - earliest_start_time, bot.py:108-109
Age(S, t) == t - SetMin({q.start_time : q \in S})

\* The mutant of did_restaurant_timeout: the threshold itself times out.
did_restaurant_timeout_early(S, t) == Age(S, t) >= TIMEOUT_HOURS

\* _did_restaurant_timeout for a non-empty request set, bot.py:107-109
did_restaurant_timeout(S, t) == Age(S, t) > TIMEOUT_HOURS

\* The mutant of MonitorEvent: the outcome is recorded as opened whenever
\* the chat had waited at all.
MonitorEvent_waited(q, t, r, success) ==
    [chat_id |-> q.chat_id, start_time |-> q.start_time, end_time |-> t,
     restaurant |-> r, restaurant_opened |-> (success \/ t > q.start_time)]

\* MonitorEvent(chat_id, start_time, end_time, restaurant_name, success)
MonitorEvent(q, t, r, success) ==
    [chat_id |-> q.chat_id, start_time |-> q.start_time, end_time |-> t,
     restaurant |-> r, restaurant_opened |-> success]

\* ------------------------------------------------------------- woltapi.py

\* What requests.get(restaurant.info_url).json() can give, woltapi.py:55:
\* the body is not JSON; the object has no "results"; "results" is an empty
\* list, or null; or its first entry has, or lacks, "online" and
\* "delivery_specs" with its "delivery_enabled".
StatusResponse(res, o, d) == [results |-> res, online |-> o, delivery_enabled |-> d]

NoResponse == StatusResponse("none", "none", "none")

StatusResponses ==
    {StatusResponse(res, "none", "none") : res \in {"not_json", "missing", "empty", "null"}}
    \cup {StatusResponse("entry", o, d) :
            o \in {"missing", "true", "false"}, d \in {"missing", "true", "false"}}

\* The mutant of is_restaurant_online: the older, online-only condition.
is_restaurant_online_only(resp) ==
    CASE resp.results = "not_json" -> "ValueError"
      [] resp.results = "missing" -> "WoltAPIException"
      [] resp.results = "empty" -> "IndexError"
      [] resp.results = "null" -> "TypeError"
      [] OTHER ->
           CASE resp.online = "missing" -> "WoltAPIException"
             [] OTHER -> resp.online

\* WoltAPI.is_restaurant_online, woltapi.py:54-61: the value returned, or
\* the exception raised.  Only KeyError is turned into WoltAPIException;
\* `and` does not look at delivery_specs when online is false.
is_restaurant_online(resp) ==
    CASE resp.results = "not_json" -> "ValueError"
      [] resp.results = "missing" -> "WoltAPIException"
      [] resp.results = "empty" -> "IndexError"
      [] resp.results = "null" -> "TypeError"
      [] OTHER ->
           CASE resp.online = "missing" -> "WoltAPIException"
             [] resp.online = "false" -> "false"
             [] resp.delivery_enabled = "missing" -> "WoltAPIException"
             [] OTHER -> resp.delivery_enabled

\* What requests.post(SEARCH_URL, ...).json() can give, woltapi.py:32: an
\* object without "sections", with an empty list of sections, with the one
\* section "no-content", or with one section of items.
SearchResponse(sec, items) == [sections |-> sec, items |-> items]

Injective(f) == \A i, j \in DOMAIN f : f[i] = f[j] => i = j

\* lists of distinct restaurants, one at least
SearchResults ==
    {rs \in UNION {[1..k -> Restaurants] : k \in 1..NumRestaurants} : Injective(rs)}

SearchResponses ==
    {SearchResponse(sec, <<>>) : sec \in {"missing", "empty", "no-content"}}
    \cup {SearchResponse("items", rs) : rs \in SearchResults}

\* The mutant of lookup_restaurant: a response without "sections" is taken
\* for one without matches.
lookup_restaurant_lenient(resp) ==
    CASE resp.sections \in {"missing", "no-content"} -> [raises |-> "none", results |-> <<>>]
      [] resp.sections = "empty" -> [raises |-> "IndexError", results |-> <<>>]
      [] OTHER -> [raises |-> "none", results |-> resp.items]

\* WoltAPI.lookup_restaurant, woltapi.py:25-50: the exception raised, or
\* the list returned.
lookup_restaurant(resp) ==
    CASE resp.sections = "missing" -> [raises |-> "WoltAPIException", results |-> <<>>]
      [] resp.sections = "empty" -> [raises |-> "IndexError", results |-> <<>>]
      [] resp.sections = "no-content" -> [raises |-> "none", results |-> <<>>]
      [] OTHER -> [raises |-> "none", results |-> resp.items]

\* ------------------------------------------------------------- handlers

\* update.message.text of a plain message: digits with or without a sign,
\* or anything else.
Text(numeric, value) == [numeric |-> numeric, value |-> value]

Texts ==
    {Text(FALSE, 0)}
    \cup {Text(TRUE, i) : i \in (0 - NumRestaurants - 1)..(NumRestaurants + 1)}

\* Python's list[index]: a negative index counts from the end.  The
\* position in the 1-based sequence, or 0 for IndexError.
Subscript(list, index) ==
    IF 0 <= index /\ index < Len(list) THEN index + 1
    ELSE IF index < 0 /\ 0 - Len(list) <= index THEN Len(list) + index + 1
    ELSE 0

\* the texts the handlers send
SearchFailed == "Failed to search for a restaurant because of Wolt failure."
NoneFound == "No restaurant found."
PickOne == "More than one result found, pick one"
Starting == "Starting to monitor"
StartingWithAverage == "Starting to monitor, average wait time"
StatsUnavailable == "Statistics are not available."
NoStats == "No stats available."
PrettyPrint == "GeneralStats.pretty_print()"

\* monitor_restaurant, lines 82-85: the confirmation, given whether a sink
\* is configured and what get_restaurant_stats did ("raises" if it raised).
confirmation(has_stats, restaurant_stats) ==
    IF ~has_stats THEN Starting
    ELSE CASE restaurant_stats = "raises" -> "raises"
           [] restaurant_stats = "None" -> Starting
           [] OTHER -> StartingWithAverage

\* The mutant of stats_response: get_general_stats is called on the absent
\* sink, which raises AttributeError.
stats_response_unguarded(has_stats, general_stats) ==
    CASE ~has_stats \/ general_stats = "raises" -> "raises"
      [] general_stats = "None" -> NoStats
      [] OTHER -> PrettyPrint

\* stats_handler, lines 221-233
stats_response(has_stats, general_stats) ==
    IF ~has_stats THEN StatsUnavailable
    ELSE CASE general_stats = "raises" -> "raises"
           [] general_stats = "None" -> NoStats
           [] OTHER -> PrettyPrint

\* The locals of the handler the dispatcher is running: which handler,
\* the chat, the restaurant resolved, what add_chat found (new | kept |
\* orphan), the text about to be sent, the search results, and what the
\* update held (the kind of search response, the index typed).
Command(kind, c, r, added, message, results, search, index) ==
    [kind |-> kind, chat_id |-> c, restaurant |-> r, added |-> added,
     message |-> message, results |-> results, search |-> search, index |-> index]

NoCommand == Command("none", 0, 0, "none", "none", <<>>, "none", 0)

NoAttempts == [r \in Restaurants |-> [c \in Chats |-> 0]]

\* ----------------------------------------------------------------- Init
Init ==
    /\ started = FALSE
    /\ alive = TRUE
    /\ stats \in BOOLEAN
    /\ now = 0
    /\ monitored_restaurants = <<>>
    /\ pending = 0
    /\ jobpc = "idle"
    /\ di_pos = 1
    /\ di_used = 0
    /\ done = <<>>
    /\ cur = 0
    /\ si_used = 0
    /\ visited = {}
    /\ raised = "none"
    /\ result = NoResponse
    /\ cmdpc = "idle"
    /\ cmd = NoCommand
    /\ chat_contexts = [c \in Chats |-> <<>>]
    /\ ncommands = 0
    /\ named = [restaurants |-> 0, chats |-> 0]
    /\ outcome = [r \in Restaurants |-> "none"]
    /\ subscribers = [r \in Restaurants |-> {}]
    /\ age = [r \in Restaurants |-> -1]
    /\ attempts = NoAttempts
    /\ removed = {}
    /\ events = {}

\* The mutant of run_once: the job is put in the queue twice.
run_once_twice(queue) == queue + 2

\* job_queue.run_once(self._monitor_restaurants_job, interval), bot.py:165:
\* one more job waits in the queue.
run_once(queue) == queue + 1

\* WoltBot.start: _schedule_monitor_job(updater.job_queue), bot.py:59-70
start ==
    /\ alive /\ ~started
    /\ started' = TRUE
    /\ pending' = run_once(pending)
    /\ UNCHANGED <<alive, stats, now, monitored_restaurants>>
    /\ UNCHANGED jobvars /\ UNCHANGED cmdvars /\ UNCHANGED tickvars

\* the clock
Advance ==
    /\ alive /\ now < MaxTime
    /\ now' = now + 1
    /\ UNCHANGED <<started, alive, stats, monitored_restaurants, pending>>
    /\ UNCHANGED jobvars /\ UNCHANGED cmdvars /\ UNCHANGED tickvars

\* ------------------------------------------------- dispatcher thread

\* What a dispatcher step leaves alone.
DispatcherFrame ==
    /\ UNCHANGED <<started, alive, stats, now, pending>>
    /\ UNCHANGED jobvars /\ UNCHANGED tickvars

\* The dispatcher takes the next update.  Restaurants and chats are numbered
\* in the order updates first name them: an update names one named before, or
\* the next new one.
NextUpdate(c) ==
    /\ alive /\ started /\ cmdpc = "idle" /\ ncommands < MaxCommands
    /\ c <= named.chats + 1
    /\ ncommands' = ncommands + 1

SetMax(S) == CHOOSE x \in S : \A y \in S : x >= y

Canonical(rs, n) ==
    \A i \in DOMAIN rs : rs[i] <= SetMax({n} \cup {rs[j] : j \in 1..(i - 1)}) + 1

Named(rs, c) ==
    [restaurants |-> SetMax({named.restaurants} \cup {rs[i] : i \in DOMAIN rs}),
     chats |-> Max(named.chats, c)]

\* the handler returns, or an exception leaves it (the dispatcher logs it)
HandlerEnds ==
    /\ cmdpc' = "idle"
    /\ cmd' = NoCommand

\* monitor_restaurant, line 79: the handler has resolved a restaurant and
\* looks its context up, creating an empty one when it is not watched.
monitor_restaurant_setdefault(r) ==
    /\ monitored_restaurants' = setdefault(monitored_restaurants, r)
    /\ cmdpc' = "add_chat"

\* monitor_handler, lines 189-213, up to its send_message or to line 79 of
\* monitor_restaurant.
monitor_handler ==
    \E c \in Chats, resp \in SearchResponses :
      /\ NextUpdate(c)
      /\ Canonical(resp.items, named.restaurants)
      /\ named' = Named(resp.items, c)
      /\ LET found == lookup_restaurant(resp)
             results == found.results
             Reply(text) ==
                 /\ cmdpc' = "send"
                 /\ cmd' = Command("monitor", c, 0, "none", text, results,
                                   resp.sections, 0)
                 /\ UNCHANGED monitored_restaurants
         IN CASE found.raises = "WoltAPIException" -> Reply(SearchFailed)
              [] found.raises = "IndexError" ->
                   HandlerEnds /\ UNCHANGED monitored_restaurants
              [] found.raises = "none" /\ Len(results) = 0 -> Reply(NoneFound)
              [] found.raises = "none" /\ Len(results) = 1 ->
                   /\ cmd' = Command("monitor", c, results[1], "none", "none",
                                     results, resp.sections, 0)
                   /\ monitor_restaurant_setdefault(results[1])
              [] OTHER -> Reply(PickOne)
      /\ UNCHANGED chat_contexts
      /\ DispatcherFrame

\* message_handler, lines 167-187, up to line 79 of monitor_restaurant.
\* WoltBot has no _send_message: line 180 raises AttributeError.
message_handler ==
    \E c \in Chats, text \in Texts :
      /\ NextUpdate(c)
      /\ named' = Named(<<>>, c)
      /\ LET search_results == chat_contexts[c]
             index == text.value
             at == Subscript(search_results, index)
         IN IF \/ search_results = <<>>
               \/ ~text.numeric
               \/ Len(search_results) < index
               \/ at = 0
            THEN /\ HandlerEnds
                 /\ UNCHANGED <<monitored_restaurants, chat_contexts>>
            ELSE /\ chat_contexts' = [chat_contexts EXCEPT ![c] = <<>>]
                 /\ cmd' = Command("message", c, search_results[at], "none",
                                   "none", search_results, "none", index)
                 /\ monitor_restaurant_setdefault(search_results[at])
      /\ DispatcherFrame

\* stats_handler, lines 221-233, up to its send_message
stats_handler ==
    \E c \in Chats, general_stats \in {"GeneralStats", "None", "raises"} :
      /\ NextUpdate(c)
      /\ named' = Named(<<>>, c)
      /\ LET response == stats_response(stats, general_stats)
         IN IF response = "raises"
            THEN HandlerEnds
            ELSE /\ cmdpc' = "send"
                 /\ cmd' = Command("stats", c, 0, "none", response, <<>>, "none", 0)
      /\ UNCHANGED <<monitored_restaurants, chat_contexts>>
      /\ DispatcherFrame

\* monitor_restaurant, line 80: add_chat on the context line 79 returned.
\* The tick may have popped that context from the registry since: the chat
\* then lands in a context nothing refers to.  Both handlers return as soon
\* as monitor_restaurant does: their own locals are not read again.
monitor_restaurant_add_chat ==
    /\ alive /\ cmdpc = "add_chat"
    /\ LET r == cmd.restaurant
           c == cmd.chat_id
           m == monitored_restaurants
           Added(how) == Command("monitor_restaurant", c, r, how, "none", <<>>, "none", 0)
       IN IF r \in Keys(m)
          THEN /\ monitored_restaurants' =
                    [m EXCEPT ![IndexOf(m, r)].monitor_requests = add_chat(@, c, now)]
               /\ cmd' = Added(IF c \in ChatsOf(Requests(m, r)) THEN "kept" ELSE "new")
          ELSE /\ monitored_restaurants' = m
               /\ cmd' = Added("orphan")
    /\ cmdpc' = "reply"
    /\ UNCHANGED <<chat_contexts, ncommands, named>>
    /\ DispatcherFrame

\* monitor_restaurant, lines 82-85: the statistics lookup and the text of
\* the confirmation.  If get_restaurant_stats raises, the exception leaves
\* the handler and line 87 is not reached.
monitor_restaurant_reply ==
    /\ alive /\ cmdpc = "reply"
    /\ \E restaurant_stats \in {"RestaurantStats", "None", "raises"} :
         LET message == confirmation(stats, restaurant_stats)
         IN IF message = "raises"
            THEN HandlerEnds
            ELSE /\ cmdpc' = "send"
                 /\ cmd' = [cmd EXCEPT !.message = message]
    /\ UNCHANGED <<monitored_restaurants, chat_contexts, ncommands, named>>
    /\ DispatcherFrame

\* The handler's send_message (lines 87-88, 198, 202, 211, 223, 233), and
\* what follows it: line 213 of monitor_handler, reached if it did not raise.
send_message ==
    /\ alive /\ cmdpc = "send"
    /\ \E send \in {"ok", "raises"} :
         chat_contexts' =
           IF send = "ok" /\ cmd.message = PickOne
           THEN [chat_contexts EXCEPT ![cmd.chat_id] = cmd.results]
           ELSE chat_contexts
    /\ HandlerEnds
    /\ UNCHANGED <<monitored_restaurants, ncommands, named>>
    /\ DispatcherFrame

\* ------------------------------------------------- job queue thread

\* The job thread's registers, all at once.
Job(pc, pos, used, dn, c, su, vis, exc) ==
    /\ jobpc' = pc
    /\ di_pos' = pos
    /\ di_used' = used
    /\ done' = dn
    /\ cur' = c
    /\ si_used' = su
    /\ visited' = vis
    /\ raised' = exc
    /\ result' = NoResponse

\* The job queue runs the pending _monitor_restaurants_job; the tick begins
\* by creating the iterator over self._monitored_restaurants.items().
run_job ==
    /\ alive /\ jobpc = "idle" /\ pending > 0
    /\ pending' = pending - 1
    /\ Job("scan", 1, Len(monitored_restaurants), <<>>, 0, 0, {}, "none")
    /\ UNCHANGED <<started, alive, stats, now, monitored_restaurants>>
    /\ UNCHANGED cmdvars /\ UNCHANGED tickvars

\* An exception leaves _monitor_restaurants and _monitor_restaurants_job:
\* line 160 is not reached, and the frame's locals are gone.
Raise(what) == Job("raised", 1, 0, <<>>, 0, 0, {}, what)

\* Entering one of the three notify loops (lines 122, 135, 146): done has
\* the restaurant, and the set iterator is created.
BeginNotify(r, S, kind, success) ==
    /\ Job("notify", di_pos, di_used, Append(done, <<r, success>>),
           r, Cardinality(S), {}, "none")
    /\ outcome' = [outcome EXCEPT ![r] = kind]
    /\ subscribers' = [subscribers EXCEPT ![r] = ChatsOf(S)]
    /\ age' = [age EXCEPT ![r] = IF kind = "timeout" THEN Age(S, now) ELSE -1]
    /\ alive' = alive

\* _monitor_restaurants, lines 114-116: the for statement asks the dict
\* iterator for the next restaurant, and is_restaurant_online fetches its
\* status (woltapi.py:55).
tick_scan ==
    /\ alive /\ jobpc = "scan"
    /\ IF Len(monitored_restaurants) # di_used
       THEN \* RuntimeError: dictionary changed size during iteration
            Raise("dict_changed")
       ELSE IF di_pos > Len(monitored_restaurants)
       THEN \* the scan is over: lines 151-152
            Job("stop", 1, 0, done, 0, 0, {}, "none")
       ELSE /\ jobpc' = "check"
            /\ cur' = monitored_restaurants[di_pos].restaurant
            /\ result' \in StatusResponses
            /\ UNCHANGED <<di_pos, di_used, done, si_used, visited, raised>>
    /\ UNCHANGED <<started, alive, stats, now, monitored_restaurants, pending>>
    /\ UNCHANGED cmdvars /\ UNCHANGED tickvars

\* _monitor_restaurants, lines 115-149: is_restaurant_online returns or
\* raises, and the body of the for statement acts on it.
tick_check ==
    /\ alive /\ jobpc = "check"
    /\ LET r == cur
           S == Requests(monitored_restaurants, r)
           is_online == is_restaurant_online(result)
       IN CASE is_online = "WoltAPIException" ->
                 BeginNotify(r, S, "error", FALSE)
            [] is_online \notin {"true", "false", "WoltAPIException"} ->
                 \* except: os._exit(1), lines 126-128
                 /\ alive' = FALSE
                 /\ Job("exited", 1, 0, <<>>, 0, 0, {}, "none")
                 /\ UNCHANGED <<outcome, subscribers, age>>
            [] is_online = "true" ->
                 BeginNotify(r, S, "online", TRUE)
            [] is_online = "false" /\ S = {} ->
                 \* min() of an empty sequence: ValueError, line 108
                 /\ Raise("empty_min")
                 /\ UNCHANGED <<alive, outcome, subscribers, age>>
            [] is_online = "false" /\ S # {} /\ did_restaurant_timeout(S, now) ->
                 BeginNotify(r, S, "timeout", FALSE)
            [] OTHER ->
                 \* offline, no timeout: on to the next restaurant
                 /\ jobpc' = "scan"
                 /\ di_pos' = di_pos + 1
                 /\ UNCHANGED <<di_used, done, cur, si_used, visited, raised, result>>
                 /\ outcome' = [outcome EXCEPT ![r] = "offline"]
                 /\ subscribers' = [subscribers EXCEPT ![r] = ChatsOf(S)]
                 /\ age' = [age EXCEPT ![r] = Age(S, now)]
                 /\ alive' = alive
    /\ UNCHANGED <<started, stats, now, monitored_restaurants, pending,
                   attempts, removed, events>>
    /\ UNCHANGED cmdvars

\* One turn of a notify loop: the set iterator's next(), then send_message.
tick_notify ==
    /\ alive /\ jobpc = "notify"
    /\ LET S == Requests(monitored_restaurants, cur)
       IN IF Cardinality(S) # si_used
          THEN \* RuntimeError: Set changed size during iteration
               /\ Raise("set_changed")
               /\ UNCHANGED attempts
          ELSE IF ChatsOf(S) \subseteq visited
          THEN \* the loop is over; back to the for statement of line 114
               /\ Job("scan", di_pos + 1, di_used, done, 0, 0, {}, "none")
               /\ UNCHANGED attempts
          ELSE \E c \in ChatsOf(S) \ visited, send \in {"ok", "raises"} :
               /\ attempts' = [attempts EXCEPT ![cur][c] = @ + 1]
               /\ IF send = "raises"
                  THEN Raise("send")
                  ELSE Job("notify", di_pos, di_used, done, cur, si_used,
                           visited \cup {c}, "none")
    /\ UNCHANGED <<started, alive, stats, now, monitored_restaurants, pending,
                   outcome, subscribers, age, removed, events>>
    /\ UNCHANGED cmdvars

\* Lines 151-152: _stop_monitoring_restaurant for the next entry of done.
tick_stop ==
    /\ alive /\ jobpc = "stop"
    /\ IF done = <<>>
       THEN /\ Job("returned", 1, 0, <<>>, 0, 0, {}, "none")
            /\ UNCHANGED <<monitored_restaurants, removed, events>>
       ELSE LET r == Head(done)[1]
                success == Head(done)[2]
                Continue == Job("stop", 1, 0, Tail(done), 0, 0, {}, "none")
            IN IF r \notin Keys(monitored_restaurants)
               THEN \* except KeyError: logged, lines 93-95
                    /\ Continue
                    /\ UNCHANGED <<monitored_restaurants, removed, events>>
               ELSE /\ monitored_restaurants' = pop(monitored_restaurants, r)
                    /\ removed' = removed \cup {r}
                    /\ IF ~stats
                       THEN Continue /\ UNCHANGED events
                       ELSE \E report \in {"ok", "raises"} :
                              IF report = "raises"
                              THEN Raise("stats") /\ UNCHANGED events
                              ELSE /\ Continue
                                   /\ events' = events \cup
                                        {MonitorEvent(q, now, r, success) :
                                           q \in Requests(monitored_restaurants, r)}
    /\ UNCHANGED <<started, alive, stats, now, pending,
                   outcome, subscribers, age, attempts>>
    /\ UNCHANGED cmdvars

\* _monitor_restaurants_job, line 160, and _schedule_monitor_job: run_once
\* puts one job in the queue.  The tick's record is dropped with its frame.
schedule_monitor_job ==
    /\ alive /\ jobpc = "returned"
    /\ pending' = run_once(pending)
    /\ jobpc' = "idle"
    /\ outcome' = [r \in Restaurants |-> "none"]
    /\ subscribers' = [r \in Restaurants |-> {}]
    /\ age' = [r \in Restaurants |-> -1]
    /\ attempts' = NoAttempts
    /\ removed' = {}
    /\ events' = {}
    /\ UNCHANGED <<started, alive, stats, now, monitored_restaurants,
                   di_pos, di_used, done, cur, si_used, visited, raised, result>>
    /\ UNCHANGED cmdvars

\* ----------------------------------------------------------------- claims

\* _monitor_restaurants has returned or raised: the tick is over.
TickEnded == jobpc \in {"returned", "raised"}

Terminal == {"online", "error", "timeout"}

\* the events the sink stored for chat c of restaurant r in this tick
EventsOf(r, c) == {e \in events : e.restaurant = r /\ e.chat_id = c}

\* The exceptions a tick raises only when a subscribe changes the registry
\* while the tick runs (C9 is about those).
RaceErrors == {"dict_changed", "set_changed", "empty_min"}

\* No subscribe has made the tick raise.
Undisturbed == raised \notin RaceErrors

\* every chat subscribed to r when it was evaluated had one message sent
NotifiedOnce(r) == \A c \in subscribers[r] : attempts[r][c] = 1

\* C1: when a tick is over, every restaurant whose status check returned
\* online in it has been removed from the registry, each chat subscribed to
\* it has been sent one "is online!" message and, with a statistics sink,
\* one MonitorEvent per subscribed chat was reported, restaurant_opened true.
C1_OnlineEndsWatch ==
    (TickEnded /\ Undisturbed) =>
      \A r \in Restaurants : outcome[r] = "online" =>
        /\ r \in removed
        /\ NotifiedOnce(r)
        /\ stats => \A c \in subscribers[r] :
                      /\ Cardinality(EventsOf(r, c)) = 1
                      /\ \A e \in EventsOf(r, c) : e.restaurant_opened

\* C2: when a tick is over, every restaurant whose status check raised
\* WoltAPIException in it has been removed from the registry (so no later
\* tick checks it unless a chat subscribes anew), each subscribed chat has
\* been sent the failure message, and the events reported for it all have
\* restaurant_opened false.
C2_ErrorEndsWatch ==
    (TickEnded /\ Undisturbed) =>
      \A r \in Restaurants : outcome[r] = "error" =>
        /\ r \in removed
        /\ NotifiedOnce(r)
        /\ \A c \in subscribers[r] : \A e \in EventsOf(r, c) : ~e.restaurant_opened
        /\ stats => \A c \in subscribers[r] : EventsOf(r, c) # {}

\* C3: when a tick is over, a restaurant it found offline whose earliest
\* start_time was more than 2 hours old has been removed and all its
\* subscribers have been sent the timeout message; one whose earliest
\* start_time was 2 hours old or less is still in the registry.
C3_TimeoutThreshold ==
    (TickEnded /\ Undisturbed) =>
      \A r \in Restaurants : outcome[r] \in {"offline", "timeout"} =>
        IF age[r] > TIMEOUT_HOURS
        THEN r \in removed /\ NotifiedOnce(r)
        ELSE r \notin removed /\ r \in Keys(monitored_restaurants)


\* C4: when a tick is over, failed sends and failed reports included, every
\* restaurant that reached a terminal outcome in it had exactly one outcome
\* message sent to every chat subscribed to it: none twice, none zero.
C4_OneMessagePerOutcome ==
    (TickEnded /\ Undisturbed) =>
      \A r \in Restaurants : outcome[r] \in Terminal =>
        \A c \in subscribers[r] : attempts[r][c] = 1

\* C5: while the process runs after start(), whatever happened inside a tick
\* (a failed send, a failed statistics report), exactly one monitor job is
\* pending or running.
C5_AlwaysRescheduled ==
    (started /\ alive /\ Undisturbed) =>
      \/ pending = 1 /\ jobpc = "idle"
      \/ pending = 0 /\ jobpc \in {"scan", "check", "notify", "stop", "returned"}

\* C6: a tick in which nothing but send_message calls failed returns
\* normally: the failure does not leave the tick, every chat of every
\* restaurant that reached a terminal outcome has had its message sent, and
\* those restaurants have been removed from the registry.
C6_SendFailureContained ==
    (TickEnded /\ Undisturbed /\ raised # "stats") =>
      /\ jobpc = "returned"
      /\ \A r \in Restaurants : outcome[r] \in Terminal =>
           r \in removed /\ NotifiedOnce(r)

\* C7: add_chat for a chat that is already subscribed to the restaurant
\* leaves that chat's one MonitorRequest as it was, start_time included; a
\* chat that was not subscribed gets one MonitorRequest whose start_time is
\* the time of this, its first, subscribe.
C7_ResubscribeKeepsStart ==
    [][(cmdpc = "add_chat" /\ cmdpc' = "reply"
          /\ cmd.restaurant \in Keys(monitored_restaurants)) =>
        LET r == cmd.restaurant
            c == cmd.chat_id
            before == {q \in Requests(monitored_restaurants, r) : q.chat_id = c}
            after == {q \in Requests(monitored_restaurants', r) : q.chat_id = c}
        IN /\ Cardinality(after) = 1
           /\ before # {} => after = before
           /\ before = {} => after = {MonitorRequest(c, now)}]_vars

\* C7 witness: a chat subscribed a second time, later than the first, and
\* add_chat has run.
C7_Witness ==
    /\ cmdpc = "reply" /\ cmd.added = "kept"
    /\ \E q \in Requests(monitored_restaurants, cmd.restaurant) :
         q.chat_id = cmd.chat_id /\ q.start_time < now

\* C8: while the tick is reading the registry, no key of it has an empty
\* subscriber set.
C8_NoEmptyWatch ==
    jobpc \in {"scan", "check", "notify", "stop"} =>
      \A i \in DOMAIN monitored_restaurants :
        monitored_restaurants[i].monitor_requests # {}

\* C9: a subscribe that arrives during a tick neither aborts the tick's scan
\* by changing the registry under it, nor has a chat removed from the
\* registry by the tick without the watch's terminal message sent to it.
C9_SubscribeDuringTick ==
    /\ [](raised \notin RaceErrors)
    /\ [][\A r \in Keys(monitored_restaurants) \ Keys(monitored_restaurants') :
            \A c \in ChatsOf(Requests(monitored_restaurants, r)) :
              attempts[r][c] >= 1]_vars

\* C10: an error that leaves a tick and is neither a WoltAPIException nor a
\* failed send_message ends the process.
C10_UnexpectedErrorIsFatal ==
    (jobpc = "raised" /\ raised # "send" /\ Undisturbed) => ~alive

\* The status response is not in the expected shape: a required key is
\* missing, or "results" is empty or not a list.
Malformed(resp) ==
    \/ resp.results \in {"missing", "empty", "null"}
    \/ resp.results = "entry" /\ "missing" \in {resp.online, resp.delivery_enabled}

\* the tick acts on the status response it has received
Evaluates == jobpc = "check" /\ jobpc' # "check"

\* C11: when the tick evaluates a status response that is not in the
\* expected shape, the process keeps running and the restaurant's outcome is
\* the error one (its watch ends, its subscribers are told).
C11_MalformedStatusIsError ==
    [][(Evaluates /\ Malformed(result)) =>
         (alive' /\ outcome'[cur] = "error" /\ jobpc' = "notify")]_vars

OnlineNotDelivering == StatusResponse("entry", "true", "false")

\* C12: is_restaurant_online is true only for a response with both online
\* and delivery_enabled true; and when the tick evaluates a response with
\* online true and delivery_enabled false for a restaurant that has not
\* timed out, it sends no message and leaves the registry as it is.
C12_OnlineWithoutDeliveryIsOffline ==
    /\ [](jobpc = "check" =>
            (is_restaurant_online(result) = "true" <=>
               /\ result.results = "entry"
               /\ result.online = "true"
               /\ result.delivery_enabled = "true"))
    /\ [][LET S == Requests(monitored_restaurants, cur)
          IN (/\ Evaluates
              /\ result = OnlineNotDelivering
              /\ ~(S # {} /\ Age(S, now) > TIMEOUT_HOURS)) =>
               /\ alive'
               /\ jobpc' # "notify"
               /\ attempts' = attempts
               /\ monitored_restaurants' = monitored_restaurants]_vars

\* C12 witness: the tick has evaluated such a response for a watched
\* restaurant and gone on; the restaurant is still watched, nothing was sent.
C12_Witness ==
    /\ jobpc = "scan" /\ result = OnlineNotDelivering
    /\ outcome[cur] = "offline"
    /\ cur \in Keys(monitored_restaurants)
    /\ \A c \in Chats : attempts[cur][c] = 0

\* monitor_handler is about to answer, or answers, a search that failed for
\* want of "sections" or that matched nothing
AnswersNoResult(c) ==
    /\ c.kind = "monitor"
    /\ c.search \in {"missing", "no-content"}

\* C13: lookup_restaurant raises WoltAPIException for a response without
\* "sections" and returns the empty list, raising nothing, for one without
\* matches; monitor_handler answers the first with the failure text and the
\* second with "No restaurant found.", and neither its steps up to that
\* send_message nor the send change the registry or the chat's pending
\* search results.
C13_SearchFailureAndNoMatch ==
    /\ [](/\ lookup_restaurant(SearchResponse("missing", <<>>)).raises = "WoltAPIException"
          /\ lookup_restaurant(SearchResponse("no-content", <<>>))
               = [raises |-> "none", results |-> <<>>]
          /\ (cmdpc = "send" /\ cmd.kind = "monitor") =>
               /\ cmd.search = "missing" => cmd.message = SearchFailed
               /\ cmd.search = "no-content" => cmd.message = NoneFound
               /\ cmd.search = "items" => cmd.message = PickOne)
    /\ [][((cmdpc' = "send" /\ cmd' # cmd /\ AnswersNoResult(cmd'))
           \/ (cmdpc = "send" /\ cmd' # cmd /\ AnswersNoResult(cmd))) =>
            /\ monitored_restaurants' = monitored_restaurants
            /\ chat_contexts' = chat_contexts
            /\ cmdpc' \in {"send", "idle"}]_vars

\* C13 witness: a chat that has search results to pick from searched again,
\* the response had no "sections", and the handler is at its send_message.
C13_Witness ==
    /\ cmdpc = "send" /\ cmd.kind = "monitor" /\ cmd.search = "missing"
    /\ cmd.message = SearchFailed
    /\ chat_contexts[cmd.chat_id] # <<>>

\* the job thread takes a step of _stop_monitoring_restaurant for a
\* restaurant that is in the registry
Stops(r) ==
    /\ jobpc = "stop" /\ jobvars' # jobvars
    /\ done # <<>> /\ r = Head(done)[1]
    /\ r \in Keys(monitored_restaurants)

\* C14: without a statistics sink nothing fails for want of it: the
\* confirmation of a subscribe is the plain one and is always reached,
\* add_chat adds the chat, /stats is answered "Statistics are not
\* available.", _stop_monitoring_restaurant removes the restaurant and goes
\* on to the next, no event is reported, and a tick that returns has removed
\* every restaurant with a terminal outcome and notified its chats once.
C14_NoSinkNoError ==
    /\ [](~stats =>
            /\ events = {} /\ raised # "stats"
            /\ \A x \in {"RestaurantStats", "GeneralStats", "None", "raises"} :
                 /\ confirmation(stats, x) = Starting
                 /\ stats_response(stats, x) = StatsUnavailable
            /\ cmdpc = "send" =>
                 /\ cmd.kind = "monitor_restaurant" => cmd.message = Starting
                 /\ cmd.kind = "stats" => cmd.message = StatsUnavailable
            /\ jobpc = "returned" =>
                 \A r \in Restaurants : outcome[r] \in Terminal =>
                   r \in removed /\ NotifiedOnce(r))
    /\ [][~stats =>
            /\ (cmdpc = "reply" /\ cmd' # cmd) =>
                 cmdpc' = "send" /\ cmd'.message = Starting
            /\ (cmdpc = "add_chat" /\ cmd' # cmd
                   /\ cmd.restaurant \in Keys(monitored_restaurants)) =>
                 cmd.chat_id \in
                   ChatsOf(Requests(monitored_restaurants', cmd.restaurant))
            /\ \A r \in Restaurants : Stops(r) =>
                 /\ r \notin Keys(monitored_restaurants')
                 /\ jobpc' = "stop" /\ done' = Tail(done)]_vars

\* C14 witness: no sink; a tick has removed a restaurant and returned, and
\* stats_handler is about to answer.
C14_Witness ==
    /\ ~stats /\ jobpc = "returned" /\ removed # {}
    /\ cmdpc = "send" /\ cmd.kind = "stats" /\ cmd.message = StatsUnavailable

\* C15: whatever get_restaurant_stats does (no data, or an exception),
\* monitor_restaurant, after add_chat, reaches its send_message with a
\* "Starting to monitor" text.
C15_AverageLookupBestEffort ==
    [][(cmdpc = "reply" /\ cmd' # cmd) =>
         /\ cmdpc' = "send"
         /\ cmd'.message \in {Starting, StartingWithAverage}]_vars

\* C16: when the tick evaluates a restaurant that is_restaurant_online says
\* is not online and whose earliest start_time is at most 2 hours old, that
\* step sends nothing, reports nothing and leaves the registry, so the
\* restaurant's requests and their start_times, as they are; and nothing is
\* sent or reported for that restaurant, nor is it removed, in the rest of
\* the tick.
C16_OfflineTickIsSilent ==
    /\ [][LET S == Requests(monitored_restaurants, cur)
          IN (/\ Evaluates
              /\ is_restaurant_online(result) = "false"
              /\ S # {} /\ Age(S, now) <= TIMEOUT_HOURS) =>
               /\ jobpc' = "scan" /\ done' = done
               /\ outcome'[cur] = "offline"
               /\ attempts' = attempts /\ events' = events
               /\ monitored_restaurants' = monitored_restaurants]_vars
    /\ [](\A r \in Restaurants : outcome[r] = "offline" =>
            /\ \A c \in Chats : attempts[r][c] = 0 /\ EventsOf(r, c) = {}
            /\ r \notin removed
            /\ r \in Keys(monitored_restaurants))

\* C16 witness: a restaurant with two subscribers, the earlier exactly 2
\* hours old, was found offline and the tick has gone on.
C16_Witness ==
    /\ jobpc = "scan" /\ cur \in Restaurants
    /\ outcome[cur] = "offline" /\ age[cur] = TIMEOUT_HOURS
    /\ Cardinality(subscribers[cur]) = 2
    /\ subscribers[cur] = ChatsOf(Requests(monitored_restaurants, cur))

\* _monitor_restaurants_job is running
Running == jobpc \in {"scan", "check", "notify", "stop", "returned"}

\* C17: the jobs waiting in the queue and the one running are never more
\* than one; a job is put in the queue only by start, when none was ever
\* scheduled, or by a tick that has returned, all its removals done.
C17_OneJobAtATime ==
    /\ [](pending + (IF Running THEN 1 ELSE 0) <= 1)
    /\ [][/\ pending' > pending =>
               \/ ~started /\ jobpc = "idle" /\ pending = 0
               \/ jobpc = "returned" /\ jobpc' = "idle"
          /\ (jobpc # "returned" /\ jobpc' = "returned") =>
               jobpc = "stop" /\ done = <<>>]_vars

\* C17 witness: a tick has removed a restaurant and returned; its successor
\* is not in the queue yet.
C17_Witness ==
    /\ started /\ jobpc = "returned" /\ removed # {} /\ pending = 0

\* the for statement of line 114 has not ended
Scanning == jobpc \in {"scan", "check", "notify"}

\* C18: while the tick scans the registry it removes nothing; and when the
\* scan ends in a running process, not aborted by a subscribe, every
\* restaurant that was in the registry when the tick began has been
\* evaluated, whatever the outcomes of the others.
C18_EveryRestaurantEvaluated ==
    /\ [](Scanning => removed = {})
    /\ [][(Scanning /\ ~Scanning' /\ alive' /\ raised' \notin RaceErrors) =>
            \A i \in 1..di_used :
              /\ i <= Len(monitored_restaurants)
              /\ outcome'[monitored_restaurants[i].restaurant] # "none"]_vars

\* C19: message_handler subscribes a chat only when the chat has search
\* results to pick from and the number typed is an index of them, counted
\* from 0; it subscribes the chat to the restaurant at that index and drops
\* the results.  And once monitor_handler has handled a later /monitor of
\* the chat, the chat has either no results to pick from or those of that
\* search.
C19_PickFromPendingResults ==
    [][/\ (cmd'.kind = "message" /\ cmd' # cmd) =>
            LET search_results == chat_contexts[cmd'.chat_id]
                index == cmd'.index
            IN /\ 0 <= index /\ index < Len(search_results)
               /\ cmd'.restaurant = search_results[index + 1]
               /\ chat_contexts'[cmd'.chat_id] = <<>>
       /\ (cmd'.kind = "monitor" /\ cmd' # cmd /\ cmdpc' = "add_chat") =>
            chat_contexts'[cmd'.chat_id] = <<>>
       /\ (cmd.kind = "monitor" /\ cmd' # cmd /\ cmdpc = "send") =>
            chat_contexts'[cmd.chat_id] \in {<<>>, cmd.results}]_vars

Watched(r) ==
    /\ r \in Keys(monitored_restaurants)
    /\ Requests(monitored_restaurants, r) # {}
    /\ SetMin({q.start_time : q \in Requests(monitored_restaurants, r)})
         + TIMEOUT_HOURS < MaxTime

\* C21: with both threads scheduled and the clock going on, a watched
\* restaurant is eventually out of the registry, unless the process has
\* exited or a subscribe has made a tick raise.
C21_EveryWatchEnds ==
    \A r \in Restaurants :
      Watched(r) ~>
        (r \notin Keys(monitored_restaurants) \/ ~alive \/ raised \in RaceErrors)

Next ==
    \/ start
    \/ Advance
    \/ monitor_handler
    \/ message_handler
    \/ stats_handler
    \/ monitor_restaurant_add_chat
    \/ monitor_restaurant_reply
    \/ send_message
    \/ run_job
    \/ tick_scan
    \/ tick_check
    \/ tick_notify
    \/ tick_stop
    \/ schedule_monitor_job

Spec == Init /\ [][Next]_vars

\* The job queue thread: the queue runs a job that is due, and the thread
\* goes on through _monitor_restaurants_job while the process lives.
JobThread ==
    \/ run_job
    \/ tick_scan
    \/ tick_check
    \/ tick_notify
    \/ tick_stop
    \/ schedule_monitor_job

\* The dispatcher thread goes on through a handler it has begun.
Dispatcher ==
    \/ monitor_restaurant_add_chat
    \/ monitor_restaurant_reply
    \/ send_message

\* Both threads are scheduled, and the clock goes on.
FairSpec ==
    /\ Spec
    /\ WF_vars(start)
    /\ WF_vars(Advance)
    /\ WF_vars(JobThread)
    /\ WF_vars(Dispatcher)

====
